---- MODULE Spec2Model ----
(***************************************************************************)
(* Model of crates/aiken-project/src/module.rs:                            *)
(*   - ParsedModules::sequence with find_cycle (import graph, topological  *)
(*     sequencing, cycle report);                                          *)
(*   - CheckedModules::{singleton, insert, validators, new_generator}.     *)
(*                                                                         *)
(* Node indices are 1-based here: node i of the model is petgraph's        *)
(* NodeIndex(i - 1), the node added for inputs[i].                         *)
(***************************************************************************)
EXTENDS Integers, Sequences, FiniteSets, TLC

\* ------------------------------------------------------------------ bounds

\* Largest number of import declarations, summed over all parsed modules.
MaxImports == 3

\* Largest number of definitions, summed over all checked modules.
MaxDefs == 2

\* Module identifiers that may be named by a module or by an import.
Universe == {"a", "b", "c", "d"}

\* Strings that are compared for order are sequences of character codes:
\* <<1>> is "a", <<1, 2>> is "ab", <<2>> is "b".
ModuleNames == {<<1>>, <<1, 2>>}

Packages == {<<1, 2>>, <<2>>}

DefNames == {<<1>>, <<2>>}

Codes == {"src"}

\* ModuleKind.
Kinds == {"Lib", "Validator"}

\* The variants of Definition.
DefTags == {"Fn", "DataType", "TypeAlias", "ModuleConstant", "Test", "Validator", "Use"}

\* ------------------------------------------------------------------ state

VARIABLES
    inputs,     \* sequence: Vec<(String, Vec<String>)> collected from the set
    pc,         \* position inside ParsedModules::sequence
    graph,      \* petgraph Graph: [nodes |-> n, edges |-> <<from, to>> list]
    indices,    \* HashMap<String, NodeIndex>
    values,     \* HashMap<NodeIndex, String>
    sorted,     \* what algo::toposort returned
    origin,     \* cycle.node_id()
    path,       \* find_cycle's path accumulator
    seen,       \* find_cycle's seen set
    frames,     \* call stack of find_cycle
    ret,        \* value returned by the find_cycle call that just ended
    result,     \* what sequence() returns
    checked,    \* CheckedModules: HashMap<String, CheckedModule>
    iter,       \* the order in which that hash map iterates its entries
    call        \* the last CheckedModules operation: its arguments and value

chkVars == <<checked, iter, call>>

seqVars == <<inputs, pc, graph, indices, values, sorted, origin, path, seen,
             frames, ret, result>>

\* ------------------------------------------------------------------ helpers

Range(s) == {s[i] : i \in 1..Len(s)}

Last(s) == s[Len(s)]

Front(s) == SubSeq(s, 1, Len(s) - 1)

RECURSIVE Reverse(_)
Reverse(s) == IF s = <<>> THEN <<>> ELSE Append(Reverse(Tail(s)), Head(s))

\* Sequences without repetition that enumerate the set S.
Perms(S) == {p \in [1..Cardinality(S) -> S] : \A i, j \in 1..Cardinality(S) : p[i] = p[j] => i = j}

\* ParsedModule::deps_for_graph for n modules: one import list per module,
\* at most `budget` imports in all, each naming any identifier.
RECURSIVE DepsChoices(_, _)
DepsChoices(n, budget) ==
    IF n = 0 THEN {<<>>}
    ELSE UNION {{Append(r, d) : r \in DepsChoices(n - 1, budget - k), d \in [1..k -> Universe]}
                : k \in 0..budget}

\* self.0.values().map(|m| m.deps_for_graph()).collect(): the modules of the
\* set S in the hash map's iteration order, each with its import list.
InputsOf(order, ds) == [i \in 1..Len(order) |-> [value |-> order[i], deps |-> ds[i]]]

\* ------------------------------------------------------------------ graph

\* add_node for every input, recording both directions of the bijection.
IndicesOf(inp) == [v \in {inp[i].value : i \in 1..Len(inp)} |->
                     CHOOSE i \in 1..Len(inp) : inp[i].value = v]

ValuesOf(inp) == [i \in 1..Len(inp) |-> inp[i].value]

\* Variant: an import of the module itself adds no edge.
EdgesOfImportNoSelf(from, dep, idx) ==
    IF dep \in DOMAIN idx /\ idx[dep] # from THEN <<(<<from, idx[dep]>>)>> ELSE <<>>

\* Variant: an import without a node falls back on the importing module.
EdgesOfImportAbsentSelf(from, dep, idx) ==
    IF dep \in DOMAIN idx THEN <<(<<from, idx[dep]>>)>> ELSE <<(<<from, from>>)>>

\* The edges one import adds: filter_map(|dep| indices.get(&dep)) keeps the
\* import only when the identifier has a node, and add_edge(from, to) follows.
EdgesOfImport(from, dep, idx) ==
    IF dep \in DOMAIN idx THEN <<(<<from, idx[dep]>>)>> ELSE <<>>

\* All the imports of one module, in the order of its import list.
RECURSIVE EdgesFrom(_, _, _)
EdgesFrom(from, deps, idx) ==
    IF deps = <<>> THEN <<>>
    ELSE EdgesOfImport(from, Head(deps), idx) \o EdgesFrom(from, Tail(deps), idx)

RECURSIVE AllEdges(_, _, _)
AllEdges(inp, k, idx) ==
    IF k > Len(inp) THEN <<>>
    ELSE (IF inp[k].value \in DOMAIN idx
          THEN EdgesFrom(idx[inp[k].value], inp[k].deps, idx)
          ELSE <<>>) \o AllEdges(inp, k + 1, idx)

BuildGraphOf(inp) == [nodes |-> Len(inp), edges |-> AllEdges(inp, 1, IndicesOf(inp))]

\* petgraph keeps each node's edges in a linked list headed by the edge added
\* last, so neighbours come out most recently added first.
RECURSIVE OutgoingRev(_, _)
OutgoingRev(es, n) ==
    IF es = <<>> THEN <<>>
    ELSE IF Last(es)[1] = n
         THEN <<Last(es)[2]>> \o OutgoingRev(Front(es), n)
         ELSE OutgoingRev(Front(es), n)

Neighbors(g, n) == OutgoingRev(g.edges, n)

RECURSIVE IncomingRev(_, _)
IncomingRev(es, n) ==
    IF es = <<>> THEN <<>>
    ELSE IF Last(es)[2] = n
         THEN <<Last(es)[1]>> \o IncomingRev(Front(es), n)
         ELSE IncomingRev(Front(es), n)

NeighborsIncoming(g, n) == IncomingRev(g.edges, n)

\* ------------------------------------------------------------------ toposort

\* petgraph::algo::toposort, first pass: the stack-driven depth-first search
\* that records finishing order, and fails at once on a self-loop.
RECURSIVE Pass1Inner(_, _)
Pass1Inner(g, st) ==
    IF st.stack = <<>> THEN st
    ELSE LET nx == Last(st.stack) IN
         IF nx \notin st.discovered
         THEN IF nx \in Range(Neighbors(g, nx))
              THEN [st EXCEPT !.err = nx]
              ELSE LET disc == st.discovered \cup {nx}
                       Fresh(s) == s \notin disc
                   IN Pass1Inner(g, [st EXCEPT !.discovered = disc,
                                               !.stack = st.stack \o SelectSeq(Neighbors(g, nx), Fresh)])
         ELSE Pass1Inner(g, [st EXCEPT !.stack = Front(st.stack),
                                       !.finished = st.finished \cup {nx},
                                       !.finish_stack = IF nx \in st.finished
                                                        THEN st.finish_stack
                                                        ELSE Append(st.finish_stack, nx)])

\* for i in g.node_identifiers().rev()
RECURSIVE Pass1Outer(_, _, _)
Pass1Outer(g, i, st) ==
    IF i = 0 \/ st.err # 0 THEN st
    ELSE IF i \in st.discovered
         THEN Pass1Outer(g, i - 1, st)
         ELSE Pass1Outer(g, i - 1, Pass1Inner(g, [st EXCEPT !.stack = <<i>>]))

\* Second pass: from each node in reversed finishing order, a search along
\* incoming edges; a second node reached from the same start is on a cycle.
RECURSIVE Pass2(_, _, _, _)
Pass2(g, fs, k, disc) ==
    IF k > Len(fs) THEN [ok |-> TRUE, order |-> fs, node |-> 0]
    ELSE LET i == fs[k] IN
         IF i \in disc THEN Pass2(g, fs, k + 1, disc)
         ELSE LET disc2 == disc \cup {i}
                  Fresh(s) == s \notin disc2
                  pushed == SelectSeq(NeighborsIncoming(g, i), Fresh)
              IN IF pushed # <<>>
                 THEN [ok |-> FALSE, order |-> <<>>, node |-> Last(pushed)]
                 ELSE Pass2(g, fs, k + 1, disc2)

Toposort(g) ==
    LET p1 == Pass1Outer(g, g.nodes, [discovered |-> {}, finished |-> {}, stack |-> <<>>,
                                      finish_stack |-> <<>>, err |-> 0])
    IN IF p1.err # 0
       THEN [ok |-> FALSE, order |-> <<>>, node |-> p1.err]
       ELSE Pass2(g, Reverse(p1.finish_stack), 1, {})

\* seq.iter().filter_map(|i| values.remove(i)): the names of the indices, each
\* name taken out of the map when it is used.
RECURSIVE TakeValues(_, _)
TakeValues(s, vals) ==
    IF s = <<>> THEN [out |-> <<>>, vals |-> vals]
    ELSE IF Head(s) \in DOMAIN vals
         THEN LET r == TakeValues(Tail(s), [i \in DOMAIN vals \ {Head(s)} |-> vals[i]])
              IN [out |-> <<vals[Head(s)]>> \o r.out, vals |-> r.vals]
         ELSE TakeValues(Tail(s), vals)

\* Variant: the sorted order is returned as it is.
OkModulesUnreversed(names) == names

\* .rev().collect() of the Ok branch.
OkModules(names) == Reverse(names)

\* ------------------------------------------------------------------ sequence()

NoResult == [kind |-> "none", modules |-> <<>>]

NoSort == [ok |-> TRUE, order |-> <<>>, node |-> 0]

\* No module set has been handed over yet.
InitSeq ==
    /\ inputs = <<>>
    /\ pc = "new"
    /\ graph = [nodes |-> 0, edges |-> <<>>]
    /\ indices = <<>>
    /\ values = <<>>
    /\ sorted = NoSort
    /\ origin = 0
    /\ path = <<>>
    /\ seen = {}
    /\ frames = <<>>
    /\ ret = "none"
    /\ result = NoResult

\* Lines 111-115 and 51-55: ParsedModules::from(map) for any set of parsed
\* modules with unique identifiers, and the inputs sequence() collects from
\* it, in the map's iteration order.
FromParsedModules ==
    /\ pc = "new"
    /\ \E S \in SUBSET Universe \ {{}} :
         \E ds \in DepsChoices(Cardinality(S), MaxImports) :
           \E order \in Perms(S) : inputs' = InputsOf(order, ds)
    /\ pc' = "start"
    /\ UNCHANGED <<chkVars, graph, indices, values, sorted, origin, path, seen, frames, ret, result>>

\* Lines 57-81: add the nodes, add the edges.
BuildGraph ==
    /\ pc = "start"
    /\ graph' = BuildGraphOf(inputs)
    /\ indices' = IndicesOf(inputs)
    /\ values' = ValuesOf(inputs)
    /\ pc' = "toposort"
    /\ UNCHANGED <<chkVars, inputs, sorted, origin, path, seen, frames, ret, result>>

\* Line 83.
RunToposort ==
    /\ pc = "toposort"
    /\ LET r == Toposort(graph)
       IN /\ sorted' = r
          /\ pc' = IF r.ok THEN "ok" ELSE "err"
    /\ UNCHANGED <<chkVars, inputs, graph, indices, values, origin, path, seen, frames, ret, result>>

\* Lines 84-92: names of the sorted indices, reversed.
SequenceOk ==
    /\ pc = "ok"
    /\ LET taken == TakeValues(sorted.order, values)
       IN /\ result' = [kind |-> "Ok", modules |-> OkModules(taken.out)]
          /\ values' = taken.vals
    /\ pc' = "done"
    /\ UNCHANGED <<chkVars, inputs, graph, indices, sorted, origin, path, seen, frames, ret>>

\* A call find_cycle(origin, parent, ...) begins: seen.insert(parent), and the
\* iteration over parent's outgoing neighbours starts (lines 144-146).
Frame(parent) == [parent |-> parent, iter |-> Neighbors(graph, parent)]

\* Lines 93-98: the origin, an empty path, and the outermost find_cycle call.
SequenceErr ==
    /\ pc = "err"
    /\ origin' = sorted.node
    /\ path' = <<>>
    /\ seen' = {sorted.node}
    /\ frames' = <<Frame(sorted.node)>>
    /\ ret' = "none"
    /\ pc' = "find_cycle"
    /\ UNCHANGED <<chkVars, inputs, graph, indices, values, sorted, result>>

Top == Last(frames)

Running == pc = "find_cycle" /\ frames # <<>> /\ ret = "none"

\* Variant: the origin is not pushed when it is reached.
FindCycleOriginNoPush ==
    /\ Running
    /\ Top.iter # <<>>
    /\ Head(Top.iter) = origin
    /\ frames' = Front(frames)
    /\ ret' = "true"
    /\ UNCHANGED <<chkVars, inputs, pc, graph, indices, values, sorted, origin, path, seen, result>>

\* Lines 147-151: the neighbour is the origin.
FindCycleOrigin ==
    /\ Running
    /\ Top.iter # <<>>
    /\ Head(Top.iter) = origin
    /\ path' = Append(path, Head(Top.iter))
    /\ frames' = Front(frames)
    /\ ret' = "true"
    /\ UNCHANGED <<chkVars, inputs, pc, graph, indices, values, sorted, origin, seen, result>>

\* Variant: a neighbour seen before ends the call instead of being skipped.
FindCycleSeenReturns ==
    /\ Running
    /\ Top.iter # <<>>
    /\ Head(Top.iter) # origin
    /\ Head(Top.iter) \in seen
    /\ frames' = Front(frames)
    /\ ret' = "false"
    /\ UNCHANGED <<chkVars, inputs, pc, graph, indices, values, sorted, origin, path, seen, result>>

\* Lines 153-155: the neighbour was seen before.
FindCycleSeen ==
    /\ Running
    /\ Top.iter # <<>>
    /\ Head(Top.iter) # origin
    /\ Head(Top.iter) \in seen
    /\ frames' = [frames EXCEPT ![Len(frames)].iter = Tail(Top.iter)]
    /\ UNCHANGED <<chkVars, inputs, pc, graph, indices, values, sorted, origin, path, seen, ret, result>>

\* Line 157, the call: recurse into the neighbour.
FindCycleRecurse ==
    /\ Running
    /\ Top.iter # <<>>
    /\ Head(Top.iter) # origin
    /\ Head(Top.iter) \notin seen
    /\ seen' = seen \cup {Head(Top.iter)}
    /\ frames' = Append(frames, Frame(Head(Top.iter)))
    /\ UNCHANGED <<chkVars, inputs, pc, graph, indices, values, sorted, origin, path, ret, result>>

\* Line 164: no neighbour left.
FindCycleExhausted ==
    /\ Running
    /\ Top.iter = <<>>
    /\ frames' = Front(frames)
    /\ ret' = "false"
    /\ UNCHANGED <<chkVars, inputs, pc, graph, indices, values, sorted, origin, path, seen, result>>

\* Variant: the caller pushes its own node instead of the neighbour.
FindCycleUnwindParent ==
    /\ pc = "find_cycle" /\ frames # <<>> /\ ret = "true"
    /\ path' = Append(path, Top.parent)
    /\ frames' = Front(frames)
    /\ UNCHANGED <<chkVars, inputs, pc, graph, indices, values, sorted, origin, seen, ret, result>>

\* Lines 157-161: the recursive call returned true.
FindCycleUnwind ==
    /\ pc = "find_cycle" /\ frames # <<>> /\ ret = "true"
    /\ path' = Append(path, Head(Top.iter))
    /\ frames' = Front(frames)
    /\ UNCHANGED <<chkVars, inputs, pc, graph, indices, values, sorted, origin, seen, ret, result>>

\* Lines 157, 162: the recursive call returned false; next neighbour.
FindCycleResume ==
    /\ pc = "find_cycle" /\ frames # <<>> /\ ret = "false"
    /\ frames' = [frames EXCEPT ![Len(frames)].iter = Tail(Top.iter)]
    /\ ret' = "none"
    /\ UNCHANGED <<chkVars, inputs, pc, graph, indices, values, sorted, origin, path, seen, result>>

\* Lines 100-105: the outermost call returned; its value is ignored.
SequenceErrReport ==
    /\ pc = "find_cycle" /\ frames = <<>> /\ ret # "none"
    /\ LET taken == TakeValues(path, values)
       IN /\ result' = [kind |-> "ImportCycle", modules |-> taken.out]
          /\ values' = taken.vals
    /\ pc' = "done"
    /\ UNCHANGED <<chkVars, inputs, graph, indices, sorted, origin, path, seen, frames, ret>>

\* The steps of find_cycle, and the return to sequence().
FindCycleSteps ==
    \/ FindCycleOrigin
    \/ FindCycleSeen
    \/ FindCycleRecurse
    \/ FindCycleExhausted
    \/ FindCycleUnwind
    \/ FindCycleResume
    \/ SequenceErrReport

NextSeq ==
    \/ FromParsedModules
    \/ BuildGraph
    \/ RunToposort
    \/ SequenceOk
    \/ SequenceErr
    \/ FindCycleSteps

\* ------------------------------------------------------------------ CheckedModules

\* The kinds the enumeration or the tables read the name of carry every name;
\* the kinds no operation reads the name of carry one.
NamedTags == {"Fn", "DataType", "Validator"}

Definitions ==
    [tag : NamedTags, name : DefNames] \cup [tag : DefTags \ NamedTags, name : {<<1>>}]

DefLists(n) == UNION {[1..k -> Definitions] : k \in 0..n}

RECURSIVE DefCount(_, _)
DefCount(store, names) ==
    IF names = {} THEN 0
    ELSE LET n == CHOOSE x \in names : TRUE
         IN Len(store[n].definitions) + DefCount(store, names \ {n})

\* HashMap::insert(key, value): a new entry, or the value of the key replaced.
MapInsert(store, key, value) ==
    [k \in DOMAIN store \cup {key} |-> IF k = key THEN value ELSE store[k]]

\* ModuleKind::is_validator.
IsValidatorKind(m) == m.kind = "Validator"

\* Lines 325-331: for every validator module, in iteration order, its
\* validator definitions in the order of the tree.
RECURSIVE ModuleItems(_, _)
ModuleItems(m, i) ==
    IF i > Len(m.definitions) THEN <<>>
    ELSE (IF m.definitions[i].tag = "Validator"
          THEN <<[module |-> m, pos |-> i]>>
          ELSE <<>>) \o ModuleItems(m, i + 1)

RECURSIVE CollectItems(_, _)
CollectItems(store, order) ==
    IF order = <<>> THEN <<>>
    ELSE (IF IsValidatorKind(store[Head(order)])
          THEN ModuleItems(store[Head(order)], 1)
          ELSE <<>>) \o CollectItems(store, Tail(order))

\* Ord for String: byte-wise lexicographic, a proper prefix first.
RECURSIVE StrCmp(_, _)
StrCmp(x, y) ==
    IF x = <<>> /\ y = <<>> THEN 0
    ELSE IF x = <<>> THEN -1
    ELSE IF y = <<>> THEN 1
    ELSE IF Head(x) < Head(y) THEN -1
    ELSE IF Head(x) > Head(y) THEN 1
    ELSE StrCmp(Tail(x), Tail(y))

\* Ord for a tuple: the first component that differs decides.
RECURSIVE TupleCmp(_, _)
TupleCmp(s, t) ==
    IF s = <<>> THEN 0
    ELSE IF StrCmp(Head(s), Head(t)) # 0 THEN StrCmp(Head(s), Head(t))
    ELSE TupleCmp(Tail(s), Tail(t))

\* Lines 334-343: the key the items are compared by.
SortKey(item) ==
    <<item.module.package, item.module.name, item.module.definitions[item.pos].name>>

\* Place x behind every element that does not compare greater than it.
RECURSIVE InsertSorted(_, _)
InsertSorted(s, x) ==
    IF s = <<>> THEN <<x>>
    ELSE IF TupleCmp(SortKey(x), SortKey(Head(s))) < 0
         THEN <<x>> \o s
         ELSE <<Head(s)>> \o InsertSorted(Tail(s), x)

RECURSIVE StableSort(_, _)
StableSort(items, acc) ==
    IF items = <<>> THEN acc
    ELSE StableSort(Tail(items), InsertSorted(acc, Head(items)))

\* Variant: the items are left in the order they were collected in.
SortItemsSkipped(items) == items

\* Line 333: items.sort_by(..), a stable sort.
SortItems(items) == StableSort(items, <<>>)

\* CheckedModules::validators.
Validators(store, order) == SortItems(CollectItems(store, order))

\* CheckedModules::into_validators.
RECURSIVE IntoValidators(_, _)
IntoValidators(store, order) ==
    IF order = <<>> THEN <<>>
    ELSE (IF IsValidatorKind(store[Head(order)]) THEN <<store[Head(order)]>> ELSE <<>>)
         \o IntoValidators(store, Tail(order))

\* Variant: an existing key keeps its value.
IndexMapInsertKeepFirst(tbl, key, value) ==
    IF \E i \in 1..Len(tbl) : tbl[i].key = key
    THEN tbl
    ELSE Append(tbl, [key |-> key, value |-> value])

\* IndexMap::insert: an existing key keeps its place and takes the new value,
\* a new key goes to the end.
IndexMapInsert(tbl, key, value) ==
    IF \E i \in 1..Len(tbl) : tbl[i].key = key
    THEN [i \in 1..Len(tbl) |-> IF tbl[i].key = key THEN [key |-> key, value |-> value] ELSE tbl[i]]
    ELSE Append(tbl, [key |-> key, value |-> value])

\* Lines 362-370: a fresh IndexMap filled from a builtin table.
RECURSIVE CopyBuiltins(_, _)
CopyBuiltins(tbl, builtin) ==
    IF builtin = <<>> THEN tbl
    ELSE CopyBuiltins(IndexMapInsert(tbl, Head(builtin).key, Head(builtin).value), Tail(builtin))

\* Variant: a test is taken for a function.
IsFunctionDefOrTest(def) == def.tag \in {"Fn", "Test"}

\* The arms of the match at lines 378-404.
IsFunctionDef(def) == def.tag = "Fn"

IsDataTypeDef(def) == def.tag = "DataType"

\* A reference to definition i of module m.
DefRef(m, i) == [from |-> "module", module |-> m.name, pos |-> i]

\* Lines 377-405: the definitions of one module, from definition i on.
RECURSIVE ScanDefinitions(_, _, _)
ScanDefinitions(t, m, i) ==
    IF i > Len(m.definitions) THEN t
    ELSE LET def == m.definitions[i]
             key == [module_name |-> m.name, name |-> def.name]
         IN IF IsFunctionDef(def)
            THEN ScanDefinitions([t EXCEPT !.functions = IndexMapInsert(@, key, DefRef(m, i))], m, i + 1)
            ELSE IF IsDataTypeDef(def)
            THEN ScanDefinitions([t EXCEPT !.data_types = IndexMapInsert(@, key, DefRef(m, i))], m, i + 1)
            ELSE ScanDefinitions(t, m, i + 1)

\* Lines 376-410: every module in iteration order, and its source text.
RECURSIVE ScanModules(_, _, _)
ScanModules(t, store, order) ==
    IF order = <<>> THEN t
    ELSE LET m == store[Head(order)]
             scanned == ScanDefinitions(t, m, 1)
         IN ScanModules([scanned EXCEPT !.module_src = IndexMapInsert(@, m.name, m.code)],
                        store, Tail(order))

\* CheckedModules::new_generator: the tables handed to CodeGenerator::new.
\* module_types and tracing pass through it untouched and are left out.
NewGenerator(store, order, builtin_functions, builtin_data_types) ==
    ScanModules([functions |-> CopyBuiltins(<<>>, builtin_functions),
                 data_types |-> CopyBuiltins(<<>>, builtin_data_types),
                 module_src |-> <<>>],
                store, order)

\* Keys and tables of the builtin provider.
BuiltinKey(n) == [module_name |-> <<1>>, name |-> n]

BuiltinEntry(n) == [key |-> BuiltinKey(n), value |-> [from |-> "builtin", module |-> <<1>>, pos |-> 0]]

\* (builtin functions, builtin data types) handed to new_generator.
BuiltinTables ==
    {<<(<<>>), (<<>>)>>,
     <<(<<BuiltinEntry(<<1>>)>>), (<<BuiltinEntry(<<1>>)>>)>>,
     <<(<<BuiltinEntry(<<2>>), BuiltinEntry(<<1>>)>>), (<<>>)>>}

NoCall == [op |-> "none", args |-> <<>>, value |-> <<>>]

\* CheckedModules::default().
InitChk ==
    /\ checked = <<>>
    /\ iter = <<>>
    /\ call = NoCall

\* into_validators takes the store by value: nothing can use it afterwards.
Alive == call.op # "into_validators"

\* The checked modules named n that still fit under the bound.
ModulesNamed(n, room) ==
    [name : {n}, package : Packages, kind : Kinds, code : Codes, definitions : DefLists(room)]

\* Lines 316-320: a store of one module, keyed by the module's name.
Singleton ==
    /\ call = NoCall
    /\ \E n \in ModuleNames :
         \E m \in ModulesNamed(n, MaxDefs) :
            /\ checked' = MapInsert(<<>>, m.name, m)
            /\ iter' = <<m.name>>
            /\ call' = [op |-> "singleton", args |-> <<>>, value |-> <<>>]
    /\ UNCHANGED seqVars

\* Lines 433-437: insert through DerefMut, keyed by the module's name, of a
\* module that finished analysis (each module is analysed once); the table
\* may lay its entries out in any order afterwards.
Insert ==
    /\ Alive
    /\ \E n \in ModuleNames \ DOMAIN checked :
         \E m \in ModulesNamed(n, MaxDefs - DefCount(checked, DOMAIN checked)) :
            /\ checked' = MapInsert(checked, m.name, m)
            /\ iter' \in Perms(DOMAIN checked \cup {n})
            /\ call' = [op |-> "insert", args |-> <<>>, value |-> <<>>]
    /\ UNCHANGED seqVars

\* Lines 322-347.
CallValidators ==
    /\ Alive
    /\ call' = [op |-> "validators", args |-> <<>>, value |-> Validators(checked, iter)]
    /\ UNCHANGED <<checked, iter, seqVars>>

\* Lines 349-353: the store is consumed.
CallIntoValidators ==
    /\ Alive
    /\ call' = [op |-> "into_validators", args |-> <<>>, value |-> IntoValidators(checked, iter)]
    /\ checked' = <<>>
    /\ iter' = <<>>
    /\ UNCHANGED seqVars

\* Lines 355-422.
CallNewGenerator ==
    /\ Alive
    /\ \E b \in BuiltinTables :
        /\ call' = [op |-> "new_generator", args |-> b,
                    value |-> NewGenerator(checked, iter, b[1], b[2])]
        /\ UNCHANGED <<checked, iter, seqVars>>

NextChk ==
    \/ Singleton
    \/ Insert
    \/ CallValidators
    \/ CallIntoValidators
    \/ CallNewGenerator

\* ------------------------------------------------------------------ specifications

vars == <<seqVars, chkVars>>

\* Nothing has been handed over and the store is empty.
Init == InitSeq /\ InitChk

\* One run of ParsedModules::sequence on an arbitrary module set.
SpecSeq == Init /\ [][NextSeq]_vars

\* A CheckedModules store under its operations.
SpecChk == Init /\ [][NextChk]_vars

\* ------------------------------------------------------------------ import graph, as stated

\* The identifiers of the parsed module set.
SetNames == {inputs[i].value : i \in 1..Len(inputs)}

\* "A imports B" with both A and B in the set.
ImportEdges ==
    UNION {{<<inputs[i].value, d>> : d \in Range(inputs[i].deps) \cap SetNames}
           : i \in 1..Len(inputs)}

\* Some module imports an identifier that is not in the set.
HasAbsentImport ==
    \E i \in 1..Len(inputs) : Range(inputs[i].deps) \ SetNames # {}

\* The nodes that the edges E lead to from the nodes of S.
Successors(E, S) == {e[2] : e \in {x \in E : x[1] \in S}}

\* The nodes reached from S by a walk of at least one and at most k edges.
RECURSIVE ReachedFrom(_, _, _)
ReachedFrom(E, S, k) ==
    IF k = 0 \/ S = {} THEN {}
    ELSE Successors(E, S) \cup ReachedFrom(E, Successors(E, S), k - 1)

\* m lies on a directed cycle of E.
OnCycle(E, m) == m \in ReachedFrom(E, {m}, Cardinality(Universe))

Acyclic(E) == \A m \in {e[1] : e \in E} : ~OnCycle(E, m)

Done == pc = "done"

Failed == pc = "done" /\ result.kind = "ImportCycle"

Position(s, m) == CHOOSE i \in 1..Len(s) : s[i] = m

NoRepeats(s) == \A i, j \in 1..Len(s) : s[i] = s[j] => i = j

\* The element that follows element i when s is read as a cyclic path.
Next1(s, i) == s[(i % Len(s)) + 1]

\* The imports with the absent identifiers taken out.
StripAbsent(inp) ==
    LET Present(d) == d \in {inp[i].value : i \in 1..Len(inp)}
    IN [i \in 1..Len(inp) |-> [value |-> inp[i].value, deps |-> SelectSeq(inp[i].deps, Present)]]

\* Edges of the built graph, as pairs of node indices.
GraphEdges == Range(graph.edges)

\* ------------------------------------------------------------------ claims: sequence()

\* C1: for an acyclic import graph sequence() returns Ok with every module
\* identifier of the set exactly once and nothing else, and for every edge
\* "A imports B" inside the set B comes before A (disconnected graphs too).
C1_SequenceIsTopological ==
    (Done /\ Acyclic(ImportEdges)) =>
        /\ result.kind = "Ok"
        /\ Len(result.modules) = Cardinality(SetNames)
        /\ Range(result.modules) = SetNames
        /\ \A e \in ImportEdges :
              Position(result.modules, e[2]) < Position(result.modules, e[1])

\* Two independent chains A -> B and C -> D were sequenced.
C1_Witness ==
    /\ Done /\ result.kind = "Ok"
    /\ \E A, B, C, D \in SetNames :
          /\ Cardinality({A, B, C, D}) = 4
          /\ ImportEdges = {<<A, B>>, <<C, D>>}

\* C2: sequence() returns Err(ImportCycle) exactly when the import graph over
\* the set has a directed cycle (self-edges and duplicate edges included), and
\* Ok otherwise.
C2_ImportCycleIffCyclic ==
    Done => /\ result.kind \in {"Ok", "ImportCycle"}
            /\ (result.kind = "ImportCycle") <=> ~Acyclic(ImportEdges)

\* A failure on a set where a module imports itself and a module names the
\* same import twice.
C2_Witness ==
    /\ Failed
    /\ \E i \in 1..Len(inputs) : inputs[i].value \in Range(inputs[i].deps)
    /\ \E i \in 1..Len(inputs) :
          \E j, k \in 1..Len(inputs[i].deps) :
              j # k /\ inputs[i].deps[j] = inputs[i].deps[k] /\ inputs[i].deps[j] \in SetNames

\* An acyclic set with a duplicate import was sequenced.
C2_WitnessAcyclic ==
    /\ Done /\ result.kind = "Ok"
    /\ \E i \in 1..Len(inputs) :
          \E j, k \in 1..Len(inputs[i].deps) :
              j # k /\ inputs[i].deps[j] = inputs[i].deps[k] /\ inputs[i].deps[j] \in SetNames

\* The special cases C3 names: a two-cycle is reported as its two modules, a
\* triangle as its three.
ReportsWholeCycle ==
    LET E == ImportEdges
        R == Range(result.modules)
    IN \A X, Y, Z \in SetNames :
        /\ (X # Y /\ E = {<<X, Y>>, <<Y, X>>}) => R = {X, Y}
        /\ (Cardinality({X, Y, Z}) = 3 /\ E = {<<X, Y>>, <<Y, Z>>, <<Z, X>>}) => R = {X, Y, Z}

\* C3 as claimed: the reported list, read in its listed order as a cyclic path
\* (last element followed by the first), steps along import edges: each "m
\* then n" is an edge "m imports n"; no identifier is repeated; every listed
\* module lies on a cycle.
C3_ListedOrderIsWalk ==
    Failed =>
        /\ result.modules # <<>>
        /\ NoRepeats(result.modules)
        /\ \A i \in 1..Len(result.modules) :
              /\ <<result.modules[i], Next1(result.modules, i)>> \in ImportEdges
              /\ OnCycle(ImportEdges, result.modules[i])
        /\ ReportsWholeCycle

\* C3, amended: the reported list steps along import edges when it is read
\* backwards: each element is imported by the element listed after it, and the
\* last element is imported by the first; no identifier is repeated; every
\* listed module lies on a cycle.
C3_ReverseOrderIsWalk ==
    Failed =>
        /\ result.modules # <<>>
        /\ NoRepeats(result.modules)
        /\ \A i \in 1..Len(result.modules) :
              /\ <<Next1(result.modules, i), result.modules[i]>> \in ImportEdges
              /\ OnCycle(ImportEdges, result.modules[i])
        /\ ReportsWholeCycle

\* A triangle was reported.
C3_Witness ==
    /\ Failed
    /\ Len(result.modules) = 3
    /\ \E X, Y, Z \in SetNames :
          Cardinality({X, Y, Z}) = 3 /\ ImportEdges = {<<X, Y>>, <<Y, Z>>, <<Z, X>>}

\* C7: an import of an identifier outside the set adds no node and no edge
\* (the graph, the index map and the name map are those of the same set with
\* such imports removed), causes no error of its own, and the identifier
\* appears neither in the sequence nor in a cycle report.
C7_AbsentImportsAreDropped ==
    /\ pc \notin {"new", "start"} =>
          /\ graph = BuildGraphOf(StripAbsent(inputs))
          /\ graph.nodes = Cardinality(SetNames)
          /\ DOMAIN indices = SetNames
          /\ \A e \in GraphEdges : e[1] \in 1..graph.nodes /\ e[2] \in 1..graph.nodes
          /\ {<<inputs[e[1]].value, inputs[e[2]].value>> : e \in GraphEdges} = ImportEdges
    /\ pc = "toposort" => values = ValuesOf(StripAbsent(inputs))
    /\ Done =>
          /\ result.kind \in {"Ok", "ImportCycle"}
          /\ Range(result.modules) \subseteq SetNames
          /\ result.kind = "Ok" => Range(result.modules) = SetNames

\* Sequencing failed on a set that also imports an absent identifier.
C7_Witness == Failed /\ HasAbsentImport

\* C8 as claimed: the last element of the path built by find_cycle, and so of
\* the reported list, is the origin reported by the topological sort.
C8_PathEndsWithOrigin ==
    Failed =>
        /\ path # <<>>
        /\ Last(path) = origin
        /\ Last(result.modules) = inputs[origin].value

\* C8, amended: the first element of the path, and so of the reported list, is
\* the origin; the elements after it are the nodes of the successful branch,
\* deepest first, so the last element is the neighbour of the origin through
\* which the search went, and the origin occurs only at the front.
C8_PathStartsWithOrigin ==
    Failed =>
        /\ path # <<>>
        /\ path[1] = origin
        /\ result.modules[1] = inputs[origin].value
        /\ \A i \in 2..Len(path) : path[i] # origin
        /\ <<origin, Last(path)>> \in GraphEdges
        /\ \A i \in 1..(Len(path) - 1) : <<path[i + 1], path[i]>> \in GraphEdges

\* A report of three modules.
C8_Witness == Failed /\ Len(path) = 3

\* The neighbours the calls on the stack have still to look at.
RECURSIVE IterSum(_)
IterSum(fs) == IF fs = <<>> THEN 0 ELSE Len(Head(fs).iter) + IterSum(Tail(fs))

\* How far sequence() is from returning.
PcRank ==
    CASE pc = "new" -> 5
      [] pc = "start" -> 4
      [] pc = "toposort" -> 3
      [] pc \in {"ok", "err"} -> 2
      [] pc = "find_cycle" -> 1
      [] pc = "done" -> 0

\* A bound on the work left: the nodes not yet marked seen weigh more than
\* all the iterations their calls can add, then the neighbours still to be
\* looked at, then the calls still to return.
Variant ==
    LET unit == 2 * MaxImports + 2
        search == (Cardinality(Universe) - Cardinality(seen)) * unit
                  + 2 * IterSum(frames) + Len(frames)
                  + (IF ret = "none" THEN 1 ELSE 0)
    IN PcRank * (Cardinality(Universe) + 2) * unit + search

\* C9: the search from an origin on a cycle returns, and returns true with a
\* non-empty path, whatever branches and other cycles the graph has; so
\* sequence() terminates and ImportCycle never carries an empty list.
\* Termination: every step lowers a natural-number bound on the work left,
\* and while the search runs a step is always possible (the steps outside
\* the search are guarded by pc alone).
Returned ==
    /\ Variant >= 0
    /\ pc = "find_cycle" => ENABLED FindCycleSteps
    /\ pc = "find_cycle" =>
          /\ OnCycle(GraphEdges, origin)
          /\ frames = <<>> => (ret = "true" /\ path # <<>>)
    /\ Failed => result.modules # <<>>

C9_FindCycleReturnsTrue == []Returned /\ [][Variant' < Variant]_vars

\* The search succeeded after a branch that failed: a node was marked seen
\* and is not on the path.
C9_Witness == Failed /\ seen \ Range(path) # {}


\* ------------------------------------------------------------------ claims: CheckedModules

\* The validator definitions of the validator modules of the store, each
\* paired with its module.
AllValidatorItems ==
    UNION {{[module |-> checked[n], pos |-> i]
             : i \in {j \in 1..Len(checked[n].definitions) : checked[n].definitions[j].tag = "Validator"}}
           : n \in {k \in DOMAIN checked : checked[k].kind = "Validator"}}

\* (package name, module name, validator function name).
Triple(item) ==
    <<item.module.package, item.module.name, item.module.definitions[item.pos].name>>

UniqueTriples == \A x, y \in AllValidatorItems : Triple(x) = Triple(y) => x = y

\* Lexicographic order of strings: at the first place where they differ, or
\* where s ends and t goes on.
LexLess(s, t) ==
    \E k \in 1..(Len(t)) :
        /\ \A j \in 1..(k - 1) : j <= Len(s) /\ s[j] = t[j]
        /\ k > Len(s) \/ s[k] < t[k]

TripleLess(a, b) ==
    \/ LexLess(a[1], b[1])
    \/ a[1] = b[1] /\ LexLess(a[2], b[2])
    \/ a[1] = b[1] /\ a[2] = b[2] /\ LexLess(a[3], b[3])

\* C4: validators() yields exactly the validator definitions of the validator
\* modules, each once with its module, in ascending order of (package, module
\* name, validator name), the same for every iteration order of the map,
\* provided no two validators share a triple.
C4_ValidatorsSortedAndComplete ==
    (call.op = "validators" /\ UniqueTriples) =>
        /\ Len(call.value) = Cardinality(AllValidatorItems)
        /\ Range(call.value) = AllValidatorItems
        /\ \A i, j \in 1..Len(call.value) :
              i < j => TripleLess(Triple(call.value[i]), Triple(call.value[j]))
        /\ \A p \in Perms(DOMAIN checked) : Validators(checked, p) = call.value

\* Two validators of two modules came out in another order than the map
\* iterated them in, next to a library module's validator that was left out.
C4_Witness ==
    /\ call.op = "validators" /\ UniqueTriples
    /\ Len(call.value) = 2
    /\ call.value[1].module.name # call.value[2].module.name
    /\ CollectItems(checked, iter) # call.value

\* A validator definition inside a library module was not yielded.
C4_WitnessLibrary ==
    /\ call.op = "validators" /\ UniqueTriples
    /\ Len(call.value) = 1
    /\ \E n \in DOMAIN checked :
          /\ checked[n].kind = "Lib"
          /\ \E i \in 1..Len(checked[n].definitions) : checked[n].definitions[i].tag = "Validator"

\* Every qualified key a table can hold.
AllKeys == [module_name : ModuleNames, name : DefNames]

ValuesAt(tbl, k) == {tbl[i].value : i \in {j \in 1..Len(tbl) : tbl[j].key = k}}

KeysOf(tbl) == {tbl[i].key : i \in 1..Len(tbl)}

\* The places where the checked modules define key k with a definition of
\* the given kind.
UserDefs(k, tag) ==
    IF k.module_name \in DOMAIN checked
    THEN {i \in 1..Len(checked[k.module_name].definitions) :
             /\ checked[k.module_name].definitions[i].tag = tag
             /\ checked[k.module_name].definitions[i].name = k.name}
    ELSE {}

\* What the final table holds at k: the user definition (the last one in the
\* module) if there is one, else the builtin, else nothing.
Expected(k, tag, builtin) ==
    IF UserDefs(k, tag) # {}
    THEN {[from |-> "module", module |-> k.module_name,
           pos |-> CHOOSE i \in UserDefs(k, tag) : \A j \in UserDefs(k, tag) : j <= i]}
    ELSE ValuesAt(builtin, k)

\* C5: the symbol table is keyed by the exact pair (module identifier, name):
\* at every key it holds the user definition if a checked module defines the
\* key, otherwise the builtin if there is one, otherwise nothing; functions
\* and data types alike, and no key twice.
C5_UserDefinitionShadowsEqualKey ==
    call.op = "new_generator" =>
        /\ \A k \in AllKeys :
              /\ ValuesAt(call.value.functions, k) = Expected(k, "Fn", call.args[1])
              /\ ValuesAt(call.value.data_types, k) = Expected(k, "DataType", call.args[2])
        /\ Cardinality(KeysOf(call.value.functions)) = Len(call.value.functions)
        /\ Cardinality(KeysOf(call.value.data_types)) = Len(call.value.data_types)
        /\ KeysOf(call.value.functions) \cup KeysOf(call.value.data_types) \subseteq AllKeys

\* A builtin function was replaced by the user's definition of the same key,
\* while another builtin and a user function of the same name in another
\* module are both in the table.
C5_Witness ==
    /\ call.op = "new_generator"
    /\ \E k \in KeysOf(call.args[1]) : UserDefs(k, "Fn") # {}
    /\ \E k \in KeysOf(call.args[1]), u \in AllKeys :
          /\ UserDefs(k, "Fn") = {}
          /\ u.name = k.name /\ u.module_name # k.module_name
          /\ UserDefs(u, "Fn") # {}
          /\ {k, u} \subseteq KeysOf(call.value.functions)

\* C6 as claimed: validators() and new_generator() give the same output,
\* order of table entries included, whatever order the map iterates in.
C6_OutputIndependentOfIteration ==
    /\ call.op = "validators" =>
          \A p \in Perms(DOMAIN checked) : Validators(checked, p) = call.value
    /\ call.op = "new_generator" =>
          \A p \in Perms(DOMAIN checked) :
              NewGenerator(checked, p, call.args[1], call.args[2]) = call.value

SkippedTags == {"TypeAlias", "ModuleConstant", "Test", "Validator", "Use"}

\* The store with every definition of a skipped kind turned into an import.
Blanked(store) ==
    [n \in DOMAIN store |->
        [store[n] EXCEPT !.definitions =
            [i \in 1..Len(store[n].definitions) |->
                IF store[n].definitions[i].tag \in SkippedTags
                THEN [tag |-> "Use", name |-> store[n].definitions[i].name]
                ELSE store[n].definitions[i]]]]

\* The entry is a builtin's, or a definition of the given kind keyed by its
\* module.
EntryFrom(e, tag, builtin) ==
    \/ e.value.from = "builtin" /\ e \in Range(builtin)
    \/ /\ e.value.from = "module"
       /\ e.value.module \in DOMAIN checked
       /\ e.value.pos \in 1..Len(checked[e.value.module].definitions)
       /\ checked[e.value.module].definitions[e.value.pos].tag = tag
       /\ e.key = [module_name |-> e.value.module,
                   name |-> checked[e.value.module].definitions[e.value.pos].name]

\* C10: only function and data-type definitions reach the symbol table: every
\* entry is a builtin's or a function / data-type definition keyed by its
\* module, and type aliases, constants, tests, imports and validators change
\* nothing in either table.
C10_OnlyFunctionsAndDataTypes ==
    call.op = "new_generator" =>
        /\ \A e \in Range(call.value.functions) : EntryFrom(e, "Fn", call.args[1])
        /\ \A e \in Range(call.value.data_types) : EntryFrom(e, "DataType", call.args[2])
        /\ KeysOf(call.value.functions) =
              KeysOf(call.args[1]) \cup {k \in AllKeys : UserDefs(k, "Fn") # {}}
        /\ KeysOf(call.value.data_types) =
              KeysOf(call.args[2]) \cup {k \in AllKeys : UserDefs(k, "DataType") # {}}
        /\ NewGenerator(Blanked(checked), iter, call.args[1], call.args[2]) = call.value

\* A definition of a skipped kind has the key of a builtin function and sits
\* next to a function definition.
C10_Witness ==
    /\ call.op = "new_generator"
    /\ \E n \in DOMAIN checked :
          \E i, j \in 1..Len(checked[n].definitions) :
              /\ checked[n].definitions[i].tag \in SkippedTags
              /\ [module_name |-> n, name |-> checked[n].definitions[i].name] \in KeysOf(call.args[1])
              /\ checked[n].definitions[j].tag = "Fn"

====
